---------------------------- MODULE Spec2Model ----------------------------
(***************************************************************************)
(* prest: the identifier validator/quoter (package ident) and the template *)
(* function registry (package template, FuncRegistry), and the in-memory   *)
(* tenant map of package tenantconfig.                                     *)
(*                                                                         *)
(* A Go string is a sequence of characters; a character is a one-token     *)
(* TLA+ string.  "U+00E9" stands for a non-ASCII letter whose UTF-8        *)
(* encoding takes two bytes, so that len(s) (bytes) differs from the       *)
(* number of characters.                                                   *)
(***************************************************************************)
EXTENDS Integers, Sequences, FiniteSets, TLC

VARIABLES
    TemplateData,   \* FuncRegistry.TemplateData: key -> value (absent keys not in the domain)
    Args,           \* FuncRegistry.Args
    next,           \* FuncRegistry.next
    emitted,        \* history: the placeholders returned so far, in order, with the value bound
    call,           \* history: the registry call just made, <<name, arguments...>>
    ret,            \* history: what that call returned
    arg1, arg2,     \* the inputs of a pure function under test
    fn,             \* the pure function applied ("" before the call)
    out,            \* its result
    shared,         \* concurrent renders: TRUE when both renders use one registry
    regs,           \* concurrent renders: the registries, each [Args, next]
    proc,           \* concurrent renders: each render's position, locals and returned placeholders
    TenantConfigMap, \* package tenantconfig: the in-memory tenant map (nil before the first load)
    mu,             \* package tenantconfig: the RWMutex, [writer, readers]
    tn              \* package tenantconfig: each caller's position, locals and result

regVars  == <<TemplateData, Args, next, emitted, call, ret>>
pureVars == <<arg1, arg2, fn, out>>
concVars == <<shared, regs, proc>>
tenVars  == <<TenantConfigMap, mu, tn>>
vars     == <<TemplateData, Args, next, emitted, call, ret,
              arg1, arg2, fn, out, shared, regs, proc,
              TenantConfigMap, mu, tn>>

-----------------------------------------------------------------------------
(* Bounds of the model *)

MaxPre == 2          \* longest free prefix of an identifier input
MaxArgs == 3         \* longest Argument List of one render
MaxTextLen == 3      \* longest page-number text
IntBits == 5         \* width of the machine integer (scaled down from 64)
MaxCalls == 1        \* sqlVal/sqlList calls of one concurrent render
MaxLoads == 1        \* LoadDefault/LoadFromFile calls of one loader
MaxReads == 1        \* GetTenantConfig or AllTenants calls of one reader

(* Program constant: the segment length bound, len(part) > 63 *)
MaxSegmentLen == 63

-----------------------------------------------------------------------------
(* Characters and strings *)

AsciiLetters    == {"a", "b", "Z"}
NonAsciiLetters == {"U+00E9"}
AsciiDigits     == {"0", "1", "2", "3", "4", "5", "6", "7", "8", "9"}
DigitChars      == <<"0", "1", "2", "3", "4", "5", "6", "7", "8", "9">>

\* unicode.IsLetter, unicode.IsDigit on the characters of the model
IsLetter(c) == c \in AsciiLetters \cup NonAsciiLetters
IsDigit(c)  == c \in AsciiDigits

\* bytes of the UTF-8 encoding of one character
Utf8Len(c) == IF c \in NonAsciiLetters THEN 2 ELSE 1

\* the two halves of a string of two or more characters; the operators over
\* long strings recurse on halves, which keeps the evaluation shallow
Left(s)  == SubSeq(s, 1, Len(s) \div 2)
Right(s) == SubSeq(s, (Len(s) \div 2) + 1, Len(s))

RECURSIVE ByteLen(_)
\* Go's len(s): the number of bytes
ByteLen(s) ==
    IF s = <<>> THEN 0
    ELSE IF Len(s) = 1 THEN Utf8Len(s[1])
    ELSE ByteLen(Left(s)) + ByteLen(Right(s))

\* strings.Index: the first position where sep occurs in s, 0 when it does not
Index(s, sep) ==
    LET at == {i \in 1..(Len(s) - Len(sep) + 1) : SubSeq(s, i, i + Len(sep) - 1) = sep}
    IN  IF at = {} THEN 0 ELSE CHOOSE i \in at : \A j \in at : i <= j

RECURSIVE SplitSep(_, _)
\* strings.Split for a non-empty separator: cut at each occurrence in turn
SplitSep(s, sep) ==
    LET m == Index(s, sep)
    IN  IF m = 0 THEN <<s>>
        ELSE <<SubSeq(s, 1, m - 1)>> \o SplitSep(SubSeq(s, m + Len(sep), Len(s)), sep)

\* strings.Split: an empty separator explodes s into its characters
Split(s, sep) ==
    IF sep = <<>> THEN [i \in 1..Len(s) |-> <<s[i]>>]
    ELSE SplitSep(s, sep)

RECURSIVE Join(_, _)
\* strings.Join
Join(parts, sep) ==
    IF parts = <<>> THEN <<>>
    ELSE IF Len(parts) = 1 THEN parts[1]
    ELSE parts[1] \o sep \o Join(Tail(parts), sep)

RECURSIVE ReplaceAll(_, _, _)
\* strings.ReplaceAll for a one-character pattern
ReplaceAll(s, old, new) ==
    IF s = <<>> THEN <<>>
    ELSE IF Len(s) = 1 THEN (IF s[1] = old THEN new ELSE s)
    ELSE ReplaceAll(Left(s), old, new) \o ReplaceAll(Right(s), old, new)

-----------------------------------------------------------------------------
(* package ident *)

\* the character classes of the pattern
IsIdentStart(c) == c \in AsciiLetters \/ c = "_"
IsIdentCont(c)  == c \in AsciiLetters \/ c \in AsciiDigits \/ c = "_"

\* the automaton of ^[A-Za-z_][A-Za-z0-9_]*(\.[A-Za-z_][A-Za-z0-9_]*)*$
\* "start": a segment must begin here; "in": inside a segment; "fail": no match
reStep(st, c) ==
    IF st = "start" THEN (IF IsIdentStart(c) THEN "in" ELSE "fail")
    ELSE IF st = "in"
         THEN (IF c = "." THEN "start" ELSE IF IsIdentCont(c) THEN "in" ELSE "fail")
         ELSE "fail"

RECURSIVE reRun(_, _)
\* the state of the automaton after reading s from state st
reRun(s, st) ==
    IF s = <<>> THEN st
    ELSE IF Len(s) = 1 THEN reStep(st, s[1])
    ELSE LET mid == reRun(Left(s), st)
         IN  IF mid = "fail" THEN "fail" ELSE reRun(Right(s), mid)

\* re.MatchString: the whole string is read and a segment is open at its end
reMatchString(s) == reRun(s, "start") = "in"

\* BadPartLen without the upper bound: the pattern check alone
BadPartLen_NoUpperBound(part) == ByteLen(part) = 0

\* the per-segment test of IsValid's loop: TRUE when the segment is rejected
BadPartLen(part) == ByteLen(part) = 0 \/ ByteLen(part) > MaxSegmentLen

IsValid(s) ==
    IF ~reMatchString(s) THEN FALSE
    ELSE LET parts == Split(s, <<".">>)
         IN  \A i \in 1..Len(parts) : ~BadPartLen(parts[i])

\* IsSafeRune without the hyphen
IsSafeRune_NoHyphen(r) == IsLetter(r) \/ IsDigit(r) \/ r = "_"

\* the per-character test of IsSafeSegment's loop
IsSafeRune(r) == IsLetter(r) \/ IsDigit(r) \/ r = "_" \/ r = "-"

IsSafeSegment(s) ==
    IF s = <<>> \/ ByteLen(s) > MaxSegmentLen THEN FALSE
    ELSE \A i \in 1..Len(s) : IsSafeRune(s[i])

\* a nil error, and fmt.Errorf("invalid identifier: %s", s)
NoErr == <<>>
InvalidIdentifier(s) == <<"invalid identifier: ">> \o s

\* QuotePart without the closing quote
QuotePart_Unclosed(part) == <<"\"">> \o ReplaceAll(part, "\"", <<"\"", "\"">>)

\* one segment wrapped in double quotes, embedded double quotes doubled
QuotePart(part) == <<"\"">> \o ReplaceAll(part, "\"", <<"\"", "\"">>) \o <<"\"">>

Quote(s) ==
    IF ~IsValid(s) THEN [val |-> <<>>, err |-> InvalidIdentifier(s)]
    ELSE LET parts == Split(s, <<".">>)
             quoted == [i \in 1..Len(parts) |-> QuotePart(parts[i])]
         IN  [val |-> Join(quoted, <<".">>), err |-> NoErr]

RECURSIVE CSVLoop_KeepsValid(_, _)
\* CSVLoop returning the pieces validated so far beside the error
CSVLoop_KeepsValid(parts, i) ==
    IF i > Len(parts) THEN [val |-> parts, err |-> NoErr]
    ELSE IF ~IsValid(parts[i])
         THEN [val |-> SubSeq(parts, 1, i - 1), err |-> InvalidIdentifier(parts[i])]
         ELSE CSVLoop_KeepsValid(parts, i + 1)

RECURSIVE CSVLoop(_, _)
\* the validation loop of SplitAndValidateCSV, from piece i on
CSVLoop(parts, i) ==
    IF i > Len(parts) THEN [val |-> parts, err |-> NoErr]
    ELSE IF ~IsValid(parts[i])
         THEN [val |-> <<>>, err |-> InvalidIdentifier(parts[i])]
         ELSE CSVLoop(parts, i + 1)

SplitAndValidateCSV(s) ==
    IF s = <<>> THEN [val |-> <<>>, err |-> NoErr]
    ELSE CSVLoop(Split(s, <<",">>), 1)

-----------------------------------------------------------------------------
(* Machine integers, strconv.Atoi and the %d verb *)

RECURSIVE Pow2(_)
Pow2(n) == IF n = 0 THEN 1 ELSE 2 * Pow2(n - 1)

MinInt == -Pow2(IntBits - 1)
MaxInt == Pow2(IntBits - 1) - 1

\* two's-complement wrap-around of an arithmetic result
WrapInt(x) == ((x - MinInt) % Pow2(IntBits)) + MinInt

ErrSyntax == <<"strconv.Atoi: invalid syntax">>
ErrRange  == <<"strconv.Atoi: value out of range">>

DigitVal(c) == CHOOSE d \in 0..9 : DigitChars[d + 1] = c

RECURSIVE Magnitude(_, _)
\* the decimal value of a digit string, most significant digit first
Magnitude(ds, acc) ==
    IF ds = <<>> THEN acc ELSE Magnitude(Tail(ds), 10 * acc + DigitVal(Head(ds)))

\* strconv.Atoi: optional sign, at least one digit, digits only, in range
Atoi(s) ==
    LET signed == s # <<>> /\ Head(s) \in {"+", "-"}
        body   == IF signed THEN Tail(s) ELSE s
    IN  IF body = <<>> \/ (\E i \in 1..Len(body) : body[i] \notin AsciiDigits)
        THEN [val |-> 0, err |-> ErrSyntax]
        ELSE LET n == IF signed /\ Head(s) = "-"
                      THEN -Magnitude(body, 0) ELSE Magnitude(body, 0)
             IN  IF n < MinInt THEN [val |-> MinInt, err |-> ErrRange]
                 ELSE IF n > MaxInt THEN [val |-> MaxInt, err |-> ErrRange]
                 ELSE [val |-> n, err |-> NoErr]

RECURSIVE NatDigits(_)
NatDigits(n) ==
    IF n < 10 THEN <<DigitChars[n + 1]>>
    ELSE Append(NatDigits(n \div 10), DigitChars[(n % 10) + 1])

\* fmt's %d of an int
Itoa(n) == IF n < 0 THEN <<"-">> \o NatDigits(-n) ELSE NatDigits(n)

-----------------------------------------------------------------------------
(* package template: values of Template Data *)

\* an interface{} value: its dynamic type and its content
VNil      == [kind |-> "nil", items |-> <<>>]
VStr(s)   == [kind |-> "string", items |-> <<s>>]
VList(l)  == [kind |-> "[]string", items |-> l]
VInt(ds)  == [kind |-> "int", items |-> <<ds>>]

\* fr.TemplateData[key]: the zero value (nil) for an absent key
Lookup(td, key) == IF key \in DOMAIN td THEN td[key] ELSE VNil

\* fmt's %v of a value
FormatV(v) ==
    IF v.kind = "nil" THEN <<"<", "n", "i", "l", ">">>
    ELSE IF v.kind = "[]string" THEN <<"[">> \o Join(v.items, <<" ">>) \o <<"]">>
    ELSE v.items[1]

isSet(td, key) == key \in DOMAIN td

\* defaultOrValueTD storing the default also over a present key
defaultOrValueTD_Overwrites(td, key, defaultValue) ==
    [k \in DOMAIN td \cup {key} |-> IF k = key THEN VStr(defaultValue) ELSE td[k]]

\* the Template Data after defaultOrValue(key, defaultValue)
defaultOrValueTD(td, key, defaultValue) ==
    IF ~isSet(td, key)
    THEN [k \in DOMAIN td \cup {key} |-> IF k = key THEN VStr(defaultValue) ELSE td[k]]
    ELSE td

\* the value defaultOrValue returns
defaultOrValue(td, key, defaultValue) == defaultOrValueTD(td, key, defaultValue)[key]

inFormat(td, key) ==
    LET v == Lookup(td, key)
    IN  IF v.kind # "[]string"
        THEN <<"(", "'">> \o FormatV(v) \o <<"'", ")">>
        ELSE <<"(", "'">> \o Join(v.items, <<"'", ",", " ", "'">>) \o <<"'", ")">>

IsHex(c) == c \in AsciiDigits \cup {"a", "b"}
HexVal(c) == IF c = "a" THEN 10 ELSE IF c = "b" THEN 11 ELSE DigitVal(c)

\* the character of a decoded byte
ByteChar(n) ==
    IF n = 90 THEN "Z" ELSE IF n = 97 THEN "a" ELSE IF n = 98 THEN "b"
    ELSE IF n >= 48 /\ n <= 57 THEN DigitChars[n - 47]
    ELSE "\\x" \o ToString(n)

RECURSIVE UnescapeOK(_)
\* url.QueryUnescape's first pass: every % is followed by two hex digits
UnescapeOK(s) ==
    IF s = <<>> THEN TRUE
    ELSE IF Head(s) = "%"
         THEN Len(s) >= 3 /\ IsHex(s[2]) /\ IsHex(s[3]) /\ UnescapeOK(SubSeq(s, 4, Len(s)))
         ELSE UnescapeOK(Tail(s))

RECURSIVE UnescapeRun(_)
\* url.QueryUnescape's second pass
UnescapeRun(s) ==
    IF s = <<>> THEN <<>>
    ELSE IF Head(s) = "%"
         THEN <<ByteChar(16 * HexVal(s[2]) + HexVal(s[3]))>> \o UnescapeRun(SubSeq(s, 4, Len(s)))
         ELSE IF Head(s) = "+" THEN <<" ">> \o UnescapeRun(Tail(s))
         ELSE <<Head(s)>> \o UnescapeRun(Tail(s))

\* value, _ = url.QueryUnescape(key): the empty string on a decoding error
unEscape(key) == IF UnescapeOK(key) THEN UnescapeRun(key) ELSE <<>>

split(orig, sep) == Split(orig, sep)

\* if pageNumber-1 < 0 { pageNumber = 1 }
NormalizePage(pageNumber) == IF WrapInt(pageNumber - 1) < 0 THEN 1 ELSE pageNumber

LimitOffset(pageNumberStr, pageSizeStr) ==
    LET pn == Atoi(pageNumberStr)
        ps == Atoi(pageSizeStr)
    IN  IF pn.err # NoErr THEN [val |-> <<>>, err |-> pn.err]
        ELSE IF ps.err # NoErr THEN [val |-> <<>>, err |-> ps.err]
        ELSE [val |-> <<"LIMIT ">> \o Itoa(ps.val) \o <<" OFFSET(">>
                      \o Itoa(NormalizePage(pn.val)) \o <<" - 1) * ">> \o Itoa(ps.val),
              err |-> NoErr]

limitOffset(pageNumber, pageSize) ==
    LET r == LimitOffset(pageNumber, pageSize)
    IN  IF r.err # NoErr THEN <<>> ELSE r.val

\* AppendArg putting the value in front
AppendArg_Prepends(args, v) == <<v>> \o args

\* fr.Args = append(fr.Args, v)
AppendArg(args, v) == Append(args, v)

\* IncNext advancing by two
IncNext_ByTwo(n) == n + 2

\* fr.next++
IncNext(n) == n + 1

\* fmt.Sprintf("$%d", fr.next)
Placeholder(n) == <<"$">> \o Itoa(n)

\* append one value, advance the counter, emit its placeholder; r = [Args, next, em]
\* where em lists the placeholders emitted, each with the value bound
BindOne(r, v) ==
    LET n2 == IncNext(r.next)
    IN  [Args |-> AppendArg(r.Args, v), next |-> n2,
         em |-> Append(r.em, [ord |-> n2, val |-> v, text |-> Placeholder(n2)])]

RECURSIVE BindEach(_, _, _)
\* the loop of sqlList over the elements of s, from element i on
BindEach(r, s, i) ==
    IF i > Len(s) THEN r ELSE BindEach(BindOne(r, VStr(s[i])), s, i + 1)

sqlVal(r, td, key) == BindOne(r, Lookup(td, key))

\* sqlList advancing the counter once for a whole sequence
sqlList_CountsOnce(r, td, key) ==
    LET v  == Lookup(td, key)
        r2 == BindEach(r, v.items, 1)
    IN  IF v.kind = "[]string"
        THEN [r2 EXCEPT !.next = IF v.items = <<>> THEN r.next ELSE IncNext(r.next)]
        ELSE BindOne(r, v)

sqlList(r, td, key) ==
    LET v == Lookup(td, key)
    IN  IF v.kind = "[]string" THEN BindEach(r, v.items, 1) ELSE BindOne(r, v)

\* the text sqlVal returns: the last placeholder emitted
sqlValText(r2) == r2.em[Len(r2.em)].text

\* the text sqlList returns, r1 the registry before the call and r2 after it
sqlListText(r1, r2) ==
    LET ph == [i \in 1..(Len(r2.em) - Len(r1.em)) |-> r2.em[Len(r1.em) + i].text]
    IN  <<"(">> \o Join(ph, <<",">>) \o <<")">>

\* s, _ := fr.TemplateData[key].(string)
AsString(v) == IF v.kind = "string" THEN v.items[1] ELSE <<>>

ident(td, key) ==
    LET s == AsString(Lookup(td, key))
    IN  IF ~reMatchString(s) THEN [val |-> <<>>, err |-> InvalidIdentifier(s)]
        ELSE LET parts == Split(s, <<".">>)
                 quoted == [i \in 1..Len(parts) |-> <<"\"">> \o parts[i] \o <<"\"">>]
             IN  [val |-> Join(quoted, <<".">>), err |-> NoErr]

-----------------------------------------------------------------------------
(* Variables a specification does not use stay at these values *)

RegIdle  == TemplateData = <<>> /\ Args = <<>> /\ next = 0 /\ emitted = <<>>
            /\ call = <<>> /\ ret = <<>>
PureIdle == arg1 = <<>> /\ arg2 = <<>> /\ fn = "" /\ out = <<>>
ConcIdle == shared = FALSE /\ regs = <<>> /\ proc = <<>>
TenIdle  == TenantConfigMap = <<>> /\ mu = <<>> /\ tn = <<>>

-----------------------------------------------------------------------------
(* IdentSpec: the functions of package ident, and the registry's ident,    *)
(* applied to one input string                                             *)

IdentAlphabet == {"a", "7", "_", "-", ".", ",", "\"", " ", "U+00E9"}

\* all strings over alphabet of length at most n
StringsUpTo(alphabet, n) == UNION {[1..k -> alphabet] : k \in 0..n}

\* a run of n letters
Pad(n) == [i \in 1..n |-> "a"]

\* run lengths that bring a segment to the length bound, just under and just over
PadLens == {0, MaxSegmentLen - 1, MaxSegmentLen, MaxSegmentLen + 1}

Suffixes == {<<>>, <<".">>, <<".", "a">>, <<",", "a">>}

\* the inputs: a free prefix, a run of letters, a suffix
IdentInputs ==
    {pre \o Pad(n) \o suf : pre \in StringsUpTo(IdentAlphabet, MaxPre),
                            n \in PadLens, suf \in Suffixes}

IdentInit ==
    /\ arg1 \in IdentInputs
    /\ arg2 = <<>> /\ fn = "" /\ out = <<>>
    /\ RegIdle /\ ConcIdle /\ TenIdle

CallIsValid ==
    /\ fn = "" /\ fn' = "IsValid"
    /\ out' = IsValid(arg1)
    /\ UNCHANGED <<arg1, arg2, regVars, concVars, tenVars>>

CallIsSafeSegment ==
    /\ fn = "" /\ fn' = "IsSafeSegment"
    /\ out' = IsSafeSegment(arg1)
    /\ UNCHANGED <<arg1, arg2, regVars, concVars, tenVars>>

CallQuote ==
    /\ fn = "" /\ fn' = "Quote"
    /\ out' = Quote(arg1)
    /\ UNCHANGED <<arg1, arg2, regVars, concVars, tenVars>>

CallSplitAndValidateCSV ==
    /\ fn = "" /\ fn' = "SplitAndValidateCSV"
    /\ out' = SplitAndValidateCSV(arg1)
    /\ UNCHANGED <<arg1, arg2, regVars, concVars, tenVars>>

\* the registry's ident on Template Data holding the input under key "tbl"
CallIdent ==
    /\ fn = "" /\ fn' = "ident"
    /\ out' = ident("tbl" :> VStr(arg1), "tbl")
    /\ UNCHANGED <<arg1, arg2, regVars, concVars, tenVars>>

IdentNext ==
    \/ CallIsValid
    \/ CallIsSafeSegment
    \/ CallQuote
    \/ CallSplitAndValidateCSV
    \/ CallIdent

IdentSpec == IdentInit /\ [][IdentNext]_vars

-----------------------------------------------------------------------------
(* The Identifier shape, stated on the positions of the string *)

\* position i begins a segment
SegmentStart(s, i) == i = 1 \/ s[i - 1] = "."

\* at least one segment; every segment non-empty, at most MaxSegmentLen
\* characters, an ASCII letter or underscore first and then only ASCII
\* letters, digits and underscores
WellFormedIdentifier(s) ==
    /\ Len(s) >= 1
    /\ s[Len(s)] # "."
    /\ \A i \in 1..Len(s) :
          IF SegmentStart(s, i)
          THEN s[i] \in AsciiLetters \cup {"_"}
          ELSE s[i] \in AsciiLetters \cup AsciiDigits \cup {"_", "."}
    /\ \A i \in 1..(Len(s) - MaxSegmentLen) :
          \E j \in i..(i + MaxSegmentLen) : s[j] = "."

RECURSIVE QuotedChars(_)
\* the quoted form, character by character: a dot closes one quoted segment
\* and opens the next, a double quote is doubled
QuotedChars(s) ==
    IF s = <<>> THEN <<>>
    ELSE IF Len(s) = 1
         THEN (IF s[1] = "." THEN <<"\"", ".", "\"">>
               ELSE IF s[1] = "\"" THEN <<"\"", "\"">>
               ELSE s)
         ELSE QuotedChars(Left(s)) \o QuotedChars(Right(s))

ExpectedQuoted(s) == <<"\"">> \o QuotedChars(s) \o <<"\"">>

\* the positions of the commas of s, and the k-th piece between them
CommaCount(s) == Cardinality({i \in 1..Len(s) : s[i] = ","})
CommaAt(s, k) ==
    IF k = 0 THEN 0
    ELSE IF k > CommaCount(s) THEN Len(s) + 1
    ELSE CHOOSE i \in 1..Len(s) :
            s[i] = "," /\ Cardinality({j \in 1..i : s[j] = ","}) = k
Piece(s, k) == SubSeq(s, CommaAt(s, k - 1) + 1, CommaAt(s, k) - 1)
Pieces(s) == [k \in 1..(CommaCount(s) + 1) |-> Piece(s, k)]

\* the number of bytes of s: one per character, one more per two-byte character
Utf8Bytes(s) == Len(s) + Cardinality({i \in 1..Len(s) : s[i] \in NonAsciiLetters})

SafeChars(s) == \A i \in 1..Len(s) : IsLetter(s[i]) \/ IsDigit(s[i]) \/ s[i] \in {"_", "-"}

\* a segment of exactly the longest length allowed occurs in s
HasFullSegment(s) ==
    \E i \in 1..Len(s) :
        /\ SegmentStart(s, i)
        /\ i + MaxSegmentLen - 1 <= Len(s)
        /\ \A j \in i..(i + MaxSegmentLen - 1) : s[j] # "."
        /\ (i + MaxSegmentLen - 1 = Len(s) \/ s[i + MaxSegmentLen] = ".")

-----------------------------------------------------------------------------
(* Claims on package ident *)

C5_CSVAllOrNothing ==
    fn = "SplitAndValidateCSV" =>
        IF arg1 = <<>> THEN out = [val |-> <<>>, err |-> NoErr]
        ELSE LET ps  == Pieces(arg1)
                 bad == {k \in 1..Len(ps) : ~WellFormedIdentifier(ps[k])}
             IN  IF bad = {}
                 THEN out = [val |-> ps, err |-> NoErr]
                 ELSE LET first == CHOOSE k \in bad : \A m \in bad : k <= m
                      IN  out = [val |-> <<>>,
                                 err |-> <<"invalid identifier: ">> \o ps[first]]

\* a valid first piece was followed by an invalid one, and nothing was returned
C5_Witness ==
    /\ fn = "SplitAndValidateCSV"
    /\ CommaCount(arg1) >= 1
    /\ WellFormedIdentifier(Piece(arg1, 1))
    /\ out.err # NoErr /\ out.val = <<>>

\* C6 (as claimed): ident(key) has the same outcome as Quote applied to the
\* value at key: it succeeds exactly when the value is a valid Identifier
\* with every segment 1 to 63 characters long.
C6_IdentSameAsQuote ==
    fn = "ident" =>
        /\ (out.err = NoErr) <=> WellFormedIdentifier(arg1)
        /\ out = Quote(arg1)

\* C7 (as claimed): IsSafeSegment(s) is true iff s is non-empty, has at most
\* 63 characters, and every character is a letter, digit, underscore or hyphen.
C7_SafeSegmentByCharacters ==
    fn = "IsSafeSegment" =>
        (out = (Len(arg1) >= 1 /\ Len(arg1) <= MaxSegmentLen /\ SafeChars(arg1)))

\* C7 (amended): IsSafeSegment(s) is true iff s is non-empty, its UTF-8
\* encoding has at most 63 bytes, and every character is a letter, digit,
\* underscore or hyphen.
C7_SafeSegmentByBytes ==
    fn = "IsSafeSegment" =>
        (out = (Utf8Bytes(arg1) >= 1 /\ Utf8Bytes(arg1) <= MaxSegmentLen /\ SafeChars(arg1)))

\* IsSafeSegment rejected a string of safe characters that has at most 63
\* characters but more than 63 bytes
C7_Witness ==
    /\ fn = "IsSafeSegment" /\ out = FALSE
    /\ Len(arg1) >= 1 /\ Len(arg1) <= MaxSegmentLen /\ SafeChars(arg1)

-----------------------------------------------------------------------------
(* LimitSpec: the strict LimitOffset and the registry's limitOffset on a   *)
(* pair of texts                                                           *)

TextAlphabet == {"0", "1", "2", "3", "6", "-", "+", "x"}

PageSizeTexts == {<<"1", "0">>, <<"0">>, <<"-", "5">>, <<"x">>, <<>>}

LimitInit ==
    /\ arg1 \in StringsUpTo(TextAlphabet, MaxTextLen)
    /\ arg2 \in PageSizeTexts
    /\ fn = "" /\ out = <<>>
    /\ RegIdle /\ ConcIdle /\ TenIdle

CallLimitOffset ==
    /\ fn = "" /\ fn' = "LimitOffset"
    /\ out' = LimitOffset(arg1, arg2)
    /\ UNCHANGED <<arg1, arg2, regVars, concVars, tenVars>>

CallLimitOffsetLenient ==
    /\ fn = "" /\ fn' = "limitOffset"
    /\ out' = limitOffset(arg1, arg2)
    /\ UNCHANGED <<arg1, arg2, regVars, concVars, tenVars>>

LimitNext ==
    \/ CallLimitOffset
    \/ CallLimitOffsetLenient

LimitSpec == LimitInit /\ [][LimitNext]_vars

\* C8 (as claimed): when both texts parse as machine integers, the strict
\* LimitOffset succeeds with 'LIMIT <size> OFFSET(<page> - 1) * <size>' where
\* <page> is 1 for every non-positive page number, the most negative integer
\* included, and the page number otherwise; when either text does not parse
\* it fails with an error.
C8_LimitOffsetNormalizes ==
    fn = "LimitOffset" =>
        LET pn == Atoi(arg1)
            ps == Atoi(arg2)
        IN  IF pn.err = NoErr /\ ps.err = NoErr
            THEN out = [val |-> <<"LIMIT ">> \o Itoa(ps.val) \o <<" OFFSET(">>
                                \o Itoa(IF pn.val <= 0 THEN 1 ELSE pn.val)
                                \o <<" - 1) * ">> \o Itoa(ps.val),
                        err |-> NoErr]
            ELSE out.err # NoErr /\ out.val = <<>>

-----------------------------------------------------------------------------
(* Spec: one render's calls on one registry, each call one step            *)

Keys == {"id", "names"}

\* the values the caller may supply: a valid identifier, an invalid one, a
\* sequence of strings, an empty sequence, a value of another type
Vals ==
    {VStr(<<"a", ".", "b">>), VStr(<<"7">>),
     VList(<< <<"a">>, <<"b">> >>), VList(<<>>), VInt(<<"4">>)}

Defaults == {<<"d">>}

EscapedTexts == {<<"a", "+", "%", "5", "a">>, <<"%", "x">>}
SplitTexts   == {<<"a", ",", "b">>, <<>>}
Separators   == {<<",">>, <<>>}
PageTexts    == {<<"0">>, <<"2">>, <<"x">>}

\* the registry as BindOne sees it
Fr == [Args |-> Args, next |-> next, em |-> emitted]

Init ==
    /\ TemplateData \in UNION {[D -> Vals] : D \in SUBSET Keys}
    /\ Args = <<>>
    /\ next = 0
    /\ emitted = <<>>
    /\ call = <<>>
    /\ ret = <<>>
    /\ PureIdle /\ ConcIdle /\ TenIdle

IsSetCall ==
    \E key \in Keys :
        /\ call' = <<"isSet", key>>
        /\ ret' = isSet(TemplateData, key)
        /\ UNCHANGED <<TemplateData, Args, next, emitted, pureVars, concVars, tenVars>>

DefaultOrValueCall ==
    \E key \in Keys, d \in Defaults :
        /\ call' = <<"defaultOrValue", key, d>>
        /\ TemplateData' = defaultOrValueTD(TemplateData, key, d)
        /\ ret' = defaultOrValue(TemplateData, key, d)
        /\ UNCHANGED <<Args, next, emitted, pureVars, concVars, tenVars>>

InFormatCall ==
    \E key \in Keys :
        /\ call' = <<"inFormat", key>>
        /\ ret' = inFormat(TemplateData, key)
        /\ UNCHANGED <<TemplateData, Args, next, emitted, pureVars, concVars, tenVars>>

UnEscapeCall ==
    \E key \in EscapedTexts :
        /\ call' = <<"unEscape", key>>
        /\ ret' = unEscape(key)
        /\ UNCHANGED <<TemplateData, Args, next, emitted, pureVars, concVars, tenVars>>

SplitCall ==
    \E orig \in SplitTexts, sep \in Separators :
        /\ call' = <<"split", orig, sep>>
        /\ ret' = split(orig, sep)
        /\ UNCHANGED <<TemplateData, Args, next, emitted, pureVars, concVars, tenVars>>

LimitOffsetCall ==
    \E pageNumber \in PageTexts, pageSize \in PageTexts :
        /\ call' = <<"limitOffset", pageNumber, pageSize>>
        /\ ret' = limitOffset(pageNumber, pageSize)
        /\ UNCHANGED <<TemplateData, Args, next, emitted, pureVars, concVars, tenVars>>

SqlValCall ==
    \E key \in Keys :
        LET r2 == sqlVal(Fr, TemplateData, key)
        IN  /\ Len(r2.Args) <= MaxArgs
            /\ call' = <<"sqlVal", key>>
            /\ Args' = r2.Args
            /\ next' = r2.next
            /\ emitted' = r2.em
            /\ ret' = sqlValText(r2)
            /\ UNCHANGED <<TemplateData, pureVars, concVars, tenVars>>

SqlListCall ==
    \E key \in Keys :
        LET r2 == sqlList(Fr, TemplateData, key)
        IN  /\ Len(r2.Args) <= MaxArgs
            /\ call' = <<"sqlList", key>>
            /\ Args' = r2.Args
            /\ next' = r2.next
            /\ emitted' = r2.em
            /\ ret' = sqlListText(Fr, r2)
            /\ UNCHANGED <<TemplateData, pureVars, concVars, tenVars>>

IdentCall ==
    \E key \in Keys :
        /\ call' = <<"ident", key>>
        /\ ret' = ident(TemplateData, key)
        /\ UNCHANGED <<TemplateData, Args, next, emitted, pureVars, concVars, tenVars>>

Next ==
    \/ IsSetCall
    \/ DefaultOrValueCall
    \/ InFormatCall
    \/ UnEscapeCall
    \/ SplitCall
    \/ LimitOffsetCall
    \/ SqlValCall
    \/ SqlListCall
    \/ IdentCall

Spec == Init /\ [][Next]_vars

-----------------------------------------------------------------------------
(* Claims on one render *)

\* the highest placeholder ordinal emitted so far, 0 when none was
HighestOrdinal(em) ==
    IF em = <<>> THEN 0
    ELSE CHOOSE n \in {em[i].ord : i \in 1..Len(em)} :
            \A i \in 1..Len(em) : em[i].ord <= n

\* the values sqlList binds for a value: its elements, or the value itself
BoundValues(v) ==
    IF v.kind = "[]string" THEN [i \in 1..Len(v.items) |-> VStr(v.items[i])] ELSE <<v>>

\* C1: the placeholder counter equals the length of the Argument List and the
\* highest placeholder ordinal emitted so far; each sqlVal call raises both by
\* exactly 1 and each sqlList call by exactly the number of values it binds.
C1_CounterTracksArgs ==
    /\ [](next = Len(Args) /\ next = HighestOrdinal(emitted))
    /\ [][/\ call'[1] = "sqlVal" =>
                /\ next' = next + 1
                /\ Len(Args') = Len(Args) + 1
          /\ call'[1] = "sqlList" =>
                LET n == Len(BoundValues(Lookup(TemplateData, call'[2])))
                IN  /\ next' = next + n
                    /\ Len(Args') = Len(Args) + n]_vars

\* sqlList bound a two-element sequence after one value was already bound
C1_Witness ==
    /\ call # <<>> /\ call[1] = "sqlList"
    /\ Lookup(TemplateData, call[2]).kind = "[]string"
    /\ next = 3 /\ Len(Args) = 3

\* C2: the placeholders emitted are $1, $2, ... in render order, none reused
\* or skipped; position N of the Argument List holds the value bound when $N
\* was emitted (for a sequence, its elements in order); elements already
\* appended are never changed or removed by a later call.
C2_PlaceholdersMatchArgs ==
    /\ [](\A i \in 1..Len(emitted) :
            /\ emitted[i].ord = i
            /\ emitted[i].text = <<"$">> \o Itoa(i)
            /\ i <= Len(Args)
            /\ Args[i] = emitted[i].val)
    /\ [][/\ Len(Args') >= Len(Args)
          /\ SubSeq(Args', 1, Len(Args)) = Args
          /\ call'[1] = "sqlVal" =>
                /\ Args' = Args \o <<Lookup(TemplateData, call'[2])>>
                /\ ret' = <<"$">> \o Itoa(Len(Args) + 1)
          /\ call'[1] = "sqlList" =>
                LET vs == BoundValues(Lookup(TemplateData, call'[2]))
                    ph == [i \in 1..Len(vs) |-> <<"$">> \o Itoa(Len(Args) + i)]
                IN  /\ Args' = Args \o vs
                    /\ ret' = <<"(">> \o Join(ph, <<",">>) \o <<")">>]_vars

\* sqlVal("id") then sqlList("names") with names = ["a","b"]: placeholders $1
\* then ($2,$3), and a later defaultOrValue on "id" left the list as it was
C2_Witness ==
    /\ call # <<>> /\ call[1] = "defaultOrValue" /\ call[2] = "id"
    /\ Len(emitted) = 3
    /\ Args = <<VNil, VStr(<<"a">>), VStr(<<"b">>)>>
    /\ TemplateData["id"] = VStr(<<"d">>)

ReadOnlyCalls == {"isSet", "inFormat", "unEscape", "split", "limitOffset", "ident"}

\* C10: Template Data changes only by defaultOrValue on an absent key, which
\* adds that key with the default, leaves the other keys and returns the
\* default; on a present key it returns the existing value and changes
\* nothing; the Argument List and the counter change only by sqlVal and
\* sqlList; the other calls leave all three unchanged.
C10_FrameEffects ==
    [][/\ TemplateData' # TemplateData =>
            /\ call'[1] = "defaultOrValue"
            /\ call'[2] \notin DOMAIN TemplateData
       /\ call'[1] = "defaultOrValue" =>
            /\ UNCHANGED <<Args, next>>
            /\ IF call'[2] \in DOMAIN TemplateData
               THEN TemplateData' = TemplateData /\ ret' = TemplateData[call'[2]]
               ELSE /\ DOMAIN TemplateData' = DOMAIN TemplateData \cup {call'[2]}
                    /\ TemplateData'[call'[2]] = VStr(call'[3])
                    /\ \A k \in DOMAIN TemplateData : TemplateData'[k] = TemplateData[k]
                    /\ ret' = VStr(call'[3])
       /\ <<Args, next>>' # <<Args, next>> => call'[1] \in {"sqlVal", "sqlList"}
       /\ call'[1] \in {"sqlVal", "sqlList"} => TemplateData' = TemplateData
       /\ call'[1] \in ReadOnlyCalls => UNCHANGED <<TemplateData, Args, next>>]_vars

\* defaultOrValue inserted its default under a key bound earlier as absent,
\* and a failing ident followed
C10_Witness ==
    /\ call # <<>> /\ call[1] = "ident" /\ ret.err # NoErr
    /\ \E k \in DOMAIN TemplateData : TemplateData[k] = VStr(<<"d">>)
    /\ Len(Args) >= 1

-----------------------------------------------------------------------------
(* ConcSpec: two renders running sqlVal/sqlList concurrently, on one       *)
(* registry (shared) or on one registry each.  The statements of a call    *)
(* are separate steps: the append to fr.Args, fr.next++, and the read of   *)
(* fr.next for the placeholder text.                                       *)

Renders == {1, 2}

\* the Template Data every registry is constructed with
ConcData == [id |-> VStr(<<"7">>), names |-> VList(<< <<"a">>, <<"b">> >>)]

\* RegOf handing every render the same registry instance
RegOf_Singleton(r) == 1

\* the registry render r calls
RegOf(r) == IF shared THEN 1 ELSE r

ConcInit ==
    /\ shared \in BOOLEAN
    /\ regs = [g \in Renders |-> [Args |-> <<>>, next |-> 0]]
    /\ proc = [r \in Renders |->
                 [pc |-> "idle", vals |-> <<>>, i |-> 1, calls |-> 0, em |-> <<>>]]
    /\ RegIdle /\ PureIdle /\ TenIdle

\* render r enters sqlVal(key): v := fr.TemplateData[key]
StartSqlVal(r) ==
    \E key \in DOMAIN ConcData :
        /\ proc[r].pc = "idle" /\ proc[r].calls < MaxCalls
        /\ proc' = [proc EXCEPT ![r].pc = "append",
                                ![r].vals = <<Lookup(ConcData, key)>>,
                                ![r].i = 1,
                                ![r].calls = @ + 1]
        /\ UNCHANGED <<shared, regs, regVars, pureVars, tenVars>>

\* render r enters sqlList(key): the values to bind, none for an empty sequence
StartSqlList(r) ==
    \E key \in DOMAIN ConcData :
        LET v  == Lookup(ConcData, key)
            vs == IF v.kind = "[]string"
                  THEN [i \in 1..Len(v.items) |-> VStr(v.items[i])] ELSE <<v>>
        IN  /\ proc[r].pc = "idle" /\ proc[r].calls < MaxCalls
            /\ proc' = [proc EXCEPT ![r].pc = IF vs = <<>> THEN "idle" ELSE "append",
                                    ![r].vals = vs,
                                    ![r].i = 1,
                                    ![r].calls = @ + 1]
            /\ UNCHANGED <<shared, regs, regVars, pureVars, tenVars>>

\* fr.Args = append(fr.Args, v)
AppendStep(r) ==
    /\ proc[r].pc = "append"
    /\ regs' = [regs EXCEPT ![RegOf(r)].Args = AppendArg(@, proc[r].vals[proc[r].i])]
    /\ proc' = [proc EXCEPT ![r].pc = "inc"]
    /\ UNCHANGED <<shared, regVars, pureVars, tenVars>>

\* fr.next++
IncStep(r) ==
    /\ proc[r].pc = "inc"
    /\ regs' = [regs EXCEPT ![RegOf(r)].next = IncNext(@)]
    /\ proc' = [proc EXCEPT ![r].pc = "fmt"]
    /\ UNCHANGED <<shared, regVars, pureVars, tenVars>>

\* fmt.Sprintf("$%d", fr.next), then the next element or the return
FormatStep(r) ==
    LET n == regs[RegOf(r)].next
        p == proc[r]
    IN  /\ p.pc = "fmt"
        /\ proc' = [proc EXCEPT
                      ![r].em = Append(@, [ord |-> n, val |-> p.vals[p.i],
                                           text |-> Placeholder(n)]),
                      ![r].i = @ + 1,
                      ![r].pc = IF p.i + 1 > Len(p.vals) THEN "idle" ELSE "append"]
        /\ UNCHANGED <<shared, regs, regVars, pureVars, tenVars>>

ConcNext ==
    \/ \E r \in Renders : StartSqlVal(r)
    \/ \E r \in Renders : StartSqlList(r)
    \/ \E r \in Renders : AppendStep(r)
    \/ \E r \in Renders : IncStep(r)
    \/ \E r \in Renders : FormatStep(r)

ConcSpec == ConcInit /\ [][ConcNext]_vars

\* render r's placeholders are $1, $2, ... and position N of its registry's
\* Argument List holds the value bound with $N
Consistent(r) ==
    \A i \in 1..Len(proc[r].em) :
        LET e == proc[r].em[i]
            a == regs[RegOf(r)].Args
        IN  e.ord = i /\ e.ord <= Len(a) /\ a[e.ord] = e.val

\* C9: with one registry shared by two concurrent renders a state is
\* reachable where a placeholder $N was returned for a value that is not at
\* position N of the Argument List (two calls returning the same ordinal);
\* with a registry per render no such state is reachable.
C9_OwnRegistryStaysConsistent ==
    (~shared) => \A r \in Renders : Consistent(r)

\* on the shared registry both renders returned the same ordinal, and one of
\* them for a value that the Argument List does not hold at that position
C9_Witness ==
    /\ shared
    /\ \E i \in 1..Len(proc[1].em), j \in 1..Len(proc[2].em) :
          /\ proc[1].em[i].ord = proc[2].em[j].ord
          /\ proc[1].em[i].ord <= Len(regs[1].Args)
          /\ regs[1].Args[proc[1].em[i].ord] # proc[1].em[i].val

-----------------------------------------------------------------------------
(* package tenantconfig: values *)

\* a nil map, and a map with content m (a function on its keys)
NilMap   == [isNil |-> TRUE, m |-> <<>>]
MapOf(m) == [isNil |-> FALSE, m |-> m]

\* a TenantConfig
TC(url, config) == [DBURL |-> url, Config |-> config]

\* what os.ReadFile and yaml.Unmarshal make of the file at the path given
\* (by LoadDefault: the environment's path or the default one): no file, a
\* read error, invalid YAML, or a root with its tenants
FileOf(kind, tenants) == [kind |-> kind, tenants |-> tenants]

AnyConfig == MapOf("any" :> "value")

Files ==
    {FileOf("notexist", <<>>),
     FileOf("ioerror", <<>>),
     FileOf("badyaml", <<>>),
     FileOf("yaml", <<>>),
     FileOf("yaml", ("" :> TC("u1", NilMap))),
     FileOf("yaml", ("a" :> TC("", NilMap))),
     FileOf("yaml", ("a" :> TC("u1", NilMap))),
     FileOf("yaml", ("a" :> TC("u2", AnyConfig)) @@ ("b" :> TC("u1", NilMap))),
     FileOf("yaml", ("a" :> TC("u1", NilMap)) @@ ("b" :> TC("", AnyConfig)))}

\* the orders in which a range over a map with keys S may visit them
Orders(S) ==
    {o \in [1..Cardinality(S) -> S] : \A i, j \in 1..Cardinality(S) : o[i] = o[j] => i = j}

\* a nil error, and the errors of the package, each with the tenant id it
\* names (the file path in a message is left out)
NoError == [kind |-> "", about |-> ""]
ErrorOf(kind, about) == [kind |-> kind, about |-> about]

\* MissingDBURL letting a tenant without dbUrl through
MissingDBURL_Never(cfg) == FALSE

\* if cfg.DBURL == ""
MissingDBURL(cfg) == cfg.DBURL = ""

\* if cfg.Config == nil { cfg.Config = make(map[string]any) }
WithConfig(cfg) == IF cfg.Config.isNil THEN [cfg EXCEPT !.Config = MapOf(<<>>)] ELSE cfg

RECURSIVE ValidateLoop(_, _, _, _)
\* the loop over root.Tenants in the order given, from its i-th key on
ValidateLoop(tenants, order, i, validated) ==
    IF i > Len(order) THEN [err |-> NoError, validated |-> validated]
    ELSE LET id  == order[i]
             cfg == tenants[id]
         IN  IF id = "" THEN [err |-> ErrorOf("emptyid", ""), validated |-> <<>>]
             ELSE IF MissingDBURL(cfg)
                  THEN [err |-> ErrorOf("nodburl", id), validated |-> <<>>]
                  ELSE ValidateLoop(tenants, order, i + 1,
                                    (id :> WithConfig(cfg)) @@ validated)

\* LoadFromFile up to the lock: read, parse, validate
ReadAndValidate(file, order) ==
    IF file.kind = "notexist" THEN [err |-> ErrorOf("notfound", ""), validated |-> <<>>]
    ELSE IF file.kind = "ioerror" THEN [err |-> ErrorOf("readfail", ""), validated |-> <<>>]
    ELSE IF file.kind = "badyaml" THEN [err |-> ErrorOf("badyaml", ""), validated |-> <<>>]
    ELSE IF Cardinality(DOMAIN file.tenants) = 0
         THEN [err |-> ErrorOf("notenants", ""), validated |-> <<>>]
         ELSE ValidateLoop(file.tenants, order, 1, <<>>)

\* the copy GetTenantConfig returns: the Config map copied when it is not nil
CopyConfig(cfg) ==
    IF ~cfg.Config.isNil
    THEN [cfg EXCEPT !.Config = MapOf([k \in DOMAIN cfg.Config.m |-> cfg.Config.m[k]])]
    ELSE cfg

\* the content of a map, none for a nil map
Content(mp) == IF mp.isNil THEN <<>> ELSE mp.m

\* GetTenantConfig's answer on map mp: [cfg, err], cfg a one-element or empty sequence
GetAnswer(mp, tenantID) ==
    IF mp.isNil THEN [cfg |-> <<>>, err |-> ErrorOf("notloaded", "")]
    ELSE IF tenantID \notin DOMAIN mp.m
         THEN [cfg |-> <<>>, err |-> ErrorOf("notfound", tenantID)]
         ELSE [cfg |-> <<CopyConfig(mp.m[tenantID])>>, err |-> NoError]

-----------------------------------------------------------------------------
(* TenantSpec: loaders running LoadDefault/LoadFromFile and readers running *)
(* GetTenantConfig and AllTenants, all concurrently.  sync.RWMutex: Lock    *)
(* waits for no writer and no reader, RLock for no writer.                  *)

Loaders    == {"L1", "L2"}
GetReaders == {"G"}
AllReaders == {"A"}
Callers    == Loaders \cup GetReaders \cup AllReaders

TenantIDs == {"a", "b"}

\* a caller at rest, before its first call
AtRest ==
    [pc |-> "idle", calls |-> 0, file |-> FileOf("", <<>>), val |-> <<>>,
     err |-> NoError, key |-> "", keys |-> {}, res |-> <<>>, has |-> FALSE,
     seen |-> {}]

TenantInit ==
    /\ TenantConfigMap = NilMap
    /\ mu = [writer |-> "", readers |-> {}]
    /\ tn = [p \in Callers |-> AtRest]
    /\ RegIdle /\ PureIdle /\ ConcIdle

\* LoadDefault and LoadFromFile up to the lock; a failure returns here
LoadValidate(p) ==
    \E file \in Files :
      \E order \in Orders(DOMAIN file.tenants) :
        LET r == ReadAndValidate(file, order)
        IN  /\ tn[p].pc = "idle" /\ tn[p].calls < MaxLoads
            /\ tn' = [tn EXCEPT ![p].calls = @ + 1,
                                ![p].file = file,
                                ![p].err = r.err,
                                ![p].val = r.validated,
                                ![p].pc = IF r.err = NoError THEN "lock" ELSE "idle"]
            /\ UNCHANGED <<TenantConfigMap, mu, regVars, pureVars, concVars>>

\* mu.Lock()
LoadLock(p) ==
    /\ tn[p].pc = "lock"
    /\ mu.writer = "" /\ mu.readers = {}
    /\ mu' = [mu EXCEPT !.writer = p]
    /\ tn' = [tn EXCEPT ![p].pc = "swap"]
    /\ UNCHANGED <<TenantConfigMap, regVars, pureVars, concVars>>

\* TenantConfigMap = validated; a reader inside its call has now seen this map too
LoadSwap(p) ==
    /\ tn[p].pc = "swap"
    /\ TenantConfigMap' = MapOf(tn[p].val)
    /\ tn' = [q \in Callers |->
                IF q = p THEN [tn[q] EXCEPT !.pc = "unlock"]
                ELSE IF tn[q].pc \in {"check", "lookup", "make", "range", "copy"}
                     THEN [tn[q] EXCEPT !.seen = @ \cup {MapOf(tn[p].val)}]
                     ELSE tn[q]]
    /\ UNCHANGED <<mu, regVars, pureVars, concVars>>

\* mu.Unlock(); return nil
LoadUnlock(p) ==
    /\ tn[p].pc = "unlock"
    /\ mu' = [mu EXCEPT !.writer = ""]
    /\ tn' = [tn EXCEPT ![p].pc = "idle"]
    /\ UNCHANGED <<TenantConfigMap, regVars, pureVars, concVars>>

\* GetTenantConfig(tenantID): mu.RLock()
GetRLock(p) ==
    \E tenantID \in TenantIDs :
        /\ tn[p].pc = "idle" /\ tn[p].calls < MaxReads
        /\ mu.writer = ""
        /\ mu' = [mu EXCEPT !.readers = @ \cup {p}]
        /\ tn' = [tn EXCEPT ![p].pc = "check", ![p].calls = @ + 1,
                            ![p].key = tenantID, ![p].has = FALSE,
                            ![p].res = <<>>, ![p].err = NoError,
                            ![p].seen = {TenantConfigMap}]
        /\ UNCHANGED <<TenantConfigMap, regVars, pureVars, concVars>>

\* if TenantConfigMap == nil
GetCheckNil(p) ==
    /\ tn[p].pc = "check"
    /\ tn' = [tn EXCEPT
                ![p].pc = IF TenantConfigMap.isNil THEN "runlock" ELSE "lookup",
                ![p].has = TenantConfigMap.isNil,
                ![p].err = IF TenantConfigMap.isNil
                           THEN ErrorOf("notloaded", "") ELSE NoError]
    /\ UNCHANGED <<TenantConfigMap, mu, regVars, pureVars, concVars>>

\* cfg, ok := TenantConfigMap[tenantID], then the error or the copy
GetLookup(p) ==
    /\ tn[p].pc = "lookup"
    /\ tn' = [tn EXCEPT
                ![p].pc = "runlock",
                ![p].has = TRUE,
                ![p].err = IF tn[p].key \in DOMAIN Content(TenantConfigMap)
                           THEN NoError ELSE ErrorOf("notfound", tn[p].key),
                ![p].res = IF tn[p].key \in DOMAIN Content(TenantConfigMap)
                           THEN <<CopyConfig(Content(TenantConfigMap)[tn[p].key])>>
                           ELSE <<>>]
    /\ UNCHANGED <<TenantConfigMap, mu, regVars, pureVars, concVars>>

\* AllTenants: mu.RLock()
AllRLock(p) ==
    /\ tn[p].pc = "idle" /\ tn[p].calls < MaxReads
    /\ mu.writer = ""
    /\ mu' = [mu EXCEPT !.readers = @ \cup {p}]
    /\ tn' = [tn EXCEPT ![p].pc = "make", ![p].calls = @ + 1, ![p].has = FALSE,
                        ![p].res = <<>>, ![p].seen = {TenantConfigMap}]
    /\ UNCHANGED <<TenantConfigMap, regVars, pureVars, concVars>>

\* out := make(map[string]TenantConfig, len(TenantConfigMap))
AllMake(p) ==
    /\ tn[p].pc = "make"
    /\ tn' = [tn EXCEPT ![p].pc = "range", ![p].res = <<>>]
    /\ UNCHANGED <<TenantConfigMap, mu, regVars, pureVars, concVars>>

\* range TenantConfigMap: the map is read once, its keys are then visited
AllRange(p) ==
    /\ tn[p].pc = "range"
    /\ tn' = [tn EXCEPT
                ![p].val = Content(TenantConfigMap),
                ![p].keys = DOMAIN Content(TenantConfigMap),
                ![p].pc = IF DOMAIN Content(TenantConfigMap) = {} THEN "runlock" ELSE "copy",
                ![p].has = DOMAIN Content(TenantConfigMap) = {}]
    /\ UNCHANGED <<TenantConfigMap, mu, regVars, pureVars, concVars>>

\* out[k] = v, for the keys in any order
AllCopy(p) ==
    \E k \in tn[p].keys :
        /\ tn[p].pc = "copy"
        /\ tn' = [tn EXCEPT
                    ![p].res = (k :> tn[p].val[k]) @@ @,
                    ![p].keys = @ \ {k},
                    ![p].pc = IF tn[p].keys = {k} THEN "runlock" ELSE "copy",
                    ![p].has = tn[p].keys = {k}]
        /\ UNCHANGED <<TenantConfigMap, mu, regVars, pureVars, concVars>>

\* the deferred mu.RUnlock() and the return
ReadRUnlock(p) ==
    /\ tn[p].pc = "runlock"
    /\ mu' = [mu EXCEPT !.readers = @ \ {p}]
    /\ tn' = [tn EXCEPT ![p].pc = "idle"]
    /\ UNCHANGED <<TenantConfigMap, regVars, pureVars, concVars>>

TenantNext ==
    \/ \E p \in Loaders : LoadValidate(p)
    \/ \E p \in Loaders : LoadLock(p)
    \/ \E p \in Loaders : LoadSwap(p)
    \/ \E p \in Loaders : LoadUnlock(p)
    \/ \E p \in GetReaders : GetRLock(p)
    \/ \E p \in GetReaders : GetCheckNil(p)
    \/ \E p \in GetReaders : GetLookup(p)
    \/ \E p \in AllReaders : AllRLock(p)
    \/ \E p \in AllReaders : AllMake(p)
    \/ \E p \in AllReaders : AllRange(p)
    \/ \E p \in AllReaders : AllCopy(p)
    \/ \E p \in GetReaders \cup AllReaders : ReadRUnlock(p)

TenantSpec == TenantInit /\ [][TenantNext]_vars

-----------------------------------------------------------------------------
(* C11 *)

\* a file LoadFromFile accepts: readable, valid YAML, at least one tenant, no
\* empty id, every tenant with a dbUrl
Loadable(file) ==
    /\ file.kind = "yaml"
    /\ DOMAIN file.tenants # {}
    /\ \A id \in DOMAIN file.tenants : id # "" /\ file.tenants[id].DBURL # ""

\* the map a successful load of file installs
Loaded(file) == MapOf([id \in DOMAIN file.tenants |-> WithConfig(file.tenants[id])])

\* a load fails exactly on a file that is not loadable
C11_LoadOutcome ==
    \A p \in Loaders :
        tn[p].calls > 0 => (tn[p].err = NoError <=> Loadable(tn[p].file))

\* what a reader's finished call returned is the answer on one whole map that
\* TenantConfigMap held during the call, and names no tenant without a dbUrl
C11_ReaderSeesOneMap ==
    /\ \A p \in GetReaders :
          tn[p].has =>
            /\ \E mp \in tn[p].seen : [cfg |-> tn[p].res, err |-> tn[p].err] = GetAnswer(mp, tn[p].key)
            /\ \A i \in DOMAIN tn[p].res : tn[p].res[i].DBURL # ""
    /\ \A p \in AllReaders :
          tn[p].has =>
            /\ \E mp \in tn[p].seen : tn[p].res = Content(mp)
            /\ \A id \in DOMAIN tn[p].res : id # "" /\ tn[p].res[id].DBURL # ""
    /\ \A id \in DOMAIN Content(TenantConfigMap) : Content(TenantConfigMap)[id].DBURL # ""

\* a step that changes TenantConfigMap is the assignment of a loader that holds
\* the write lock with no reader inside, and installs the whole content of the
\* file it loaded; a step in which a load returns an error changes nothing
C11_MapStep ==
    /\ TenantConfigMap' # TenantConfigMap =>
          \E p \in Loaders :
              /\ tn[p].pc = "swap" /\ mu.writer = p /\ mu.readers = {}
              /\ Loadable(tn[p].file)
              /\ TenantConfigMap' = Loaded(tn[p].file)
    /\ \A p \in Loaders :
          (tn'[p].calls # tn[p].calls /\ tn'[p].err # NoError) =>
              /\ TenantConfigMap' = TenantConfigMap
              /\ tn'[p].pc = "idle"

\* C11: the tenant map changes only by a successful load, which replaces it
\* whole under the write lock; a failed load (unreadable file, invalid YAML,
\* no tenants, an empty id, a tenant without dbUrl) leaves it as it was; a
\* GetTenantConfig or AllTenants call concurrent with loads returns the answer
\* on one whole map, previous or new, and every tenant it returns has a
\* non-empty dbUrl
C11_TenantMapAtomic ==
    /\ [](C11_LoadOutcome /\ C11_ReaderSeesOneMap)
    /\ [][C11_MapStep]_vars

\* one load has failed on a tenant without dbUrl, another has replaced the map
\* by two tenants, and AllTenants has returned both while GetTenantConfig has
\* returned one of them
C11_Witness ==
    /\ \E p \in Loaders : tn[p].calls > 0 /\ tn[p].err.kind = "nodburl" /\ tn[p].pc = "idle"
    /\ \E p \in Loaders : tn[p].calls > 0 /\ tn[p].err = NoError /\ tn[p].pc = "idle"
                          /\ TenantConfigMap = Loaded(tn[p].file)
    /\ Cardinality(DOMAIN Content(TenantConfigMap)) = 2
    /\ tn["A"].has /\ tn["A"].pc = "idle" /\ tn["A"].res = TenantConfigMap.m
    /\ tn["G"].has /\ tn["G"].pc = "idle" /\ Len(tn["G"].res) = 1

=============================================================================
